---- MODULE Spec2Model ----
(***************************************************************************)
(* Pockyll: Jekyll linkposts from Pocket items (src/pockyll.py).           *)
(* The model covers `pockyll sync`: get_list, the per-item loop of sync(), *)
(* create_linkpost with its extraction helpers, and the update of the      *)
(* persisted cursor pocket_since.                                          *)
(*                                                                         *)
(* Python values are encoded so that TLC can compare them:                 *)
(*   None (a missing dict key)      the string None                        *)
(*   a missing time_added / since   the integer NoneInt                    *)
(*   a list of strings              a sequence                             *)
(*   '%s' % value                   [kind, val], see Format                *)
(***************************************************************************)
EXTENDS Integers, Sequences, FiniteSets, TLC

\* ----- bounds of the exploration ------------------------------------------
MaxItems == 2      \* bookmarks the feed holds (a re-delivery is not a new one)
MaxDay == 1        \* calendar days the clock can advance

\* ----- encodings ----------------------------------------------------------
None == "<None>"
NoneInt == -1

Truthy(x) == x \notin {None, ""}

\* default_config, linkpost_post_dir / linkpost_draft_dir
PostDir == "_posts/linkposts"
DraftDir == "_drafts/linkposts"

\* ----- the bookmark feed (Pocket) -----------------------------------------
Days == 0..MaxDay

\* items with an url and an id: every title and time_added for the id "a",
\* and one more article, "b"
CompleteItems ==
    { it \in [given_url : {"u"}, resolved_id : {"a", "b"},
              resolved_title : {None, "", "T"}, time_added : {NoneInt, 0}] :
        it.resolved_id = "b" => (it.resolved_title = "T" /\ it.time_added = 0) }

\* items that lack an url or an id: sync() reads no other field of them
IncompleteItems ==
    { [given_url |-> None, resolved_id |-> "a", resolved_title |-> "T", time_added |-> 0],
      [given_url |-> "u", resolved_id |-> None, resolved_title |-> "T", time_added |-> 0],
      [given_url |-> "u", resolved_id |-> "", resolved_title |-> "", time_added |-> NoneInt] }

Items == CompleteItems \cup IncompleteItems

Batches == UNION { [1..n -> Items] : n \in 0..MaxItems }

\* the 'since' values Pocket returns; pocket_since is None before the first sync
SinceValues == {1, 2}

Cursors == {NoneInt} \cup SinceValues

\* response[0] of Pocket.get: the 'list' in iteration order and the 'since'
Responses == [list : Batches, since : SinceValues]

NoResponse == [list |-> <<>>, since |-> NoneInt]

\* ----- article pages (requests.get(url).text) -----------------------------
\* desc, og, tw, kw: the @content values that the xpath queries of
\* get_meta_desc / get_doc_keywords return, in document order;
\* docsum: what the TextRank summarizer returns for the page;
\* rake: the phrases RAKE returns, best first, each a sequence of characters;
\* body: the readability summary; parses: FALSE when lxml / readability
\* raise on the document (an empty or unparseable response).
Page(desc, og, tw, docsum, kw, rake, parses) ==
    [desc |-> desc, og |-> og, tw |-> tw, docsum |-> docsum, kw |-> kw,
     rake |-> rake, body |-> "<div>article</div>", parses |-> parses]

NoPage == Page(<<>>, <<>>, <<>>, "", <<>>, <<>>, TRUE)

\* the pages the web serves in Spec: one with a description tag, one with
\* nothing to extract, one with a keywords tag
WebPages ==
    { Page(<<"d">>, <<>>, <<>>, "s", <<>>, <<>>, TRUE),
      Page(<<>>, <<>>, <<>>, "", <<>>, <<>>, TRUE),
      Page(<<"d">>, <<>>, <<>>, "s", <<"k1, k2">>, <<>>, TRUE) }

\* the pages the web serves in SpecPages: every combination of the tags
SeqUpTo(S, n) == UNION { [1..k -> S] : k \in 0..n }

AllPages ==
    { Page(d, o, t, s, k, <<>>, p) :
        d \in SeqUpTo({"", "d"}, 2), o \in SeqUpTo({"", "o"}, 1),
        t \in SeqUpTo({"", "t"}, 1), s \in {"", "s"},
        k \in {<<>>, <<"k1, k2">>}, p \in BOOLEAN }

\* ----- '%s' formatting ----------------------------------------------------
\* '%s' % x for a string or None: the text itself, None as the text None
FormatStr(x) == [kind |-> "str", val |-> <<IF x = None THEN "None" ELSE x>>]

\* '%s' % x for a list: the repr of the list, brackets and quotes included
FormatList(l) == [kind |-> "list", val |-> l]

\* ----- extraction helpers -------------------------------------------------
\* get_meta_desc: a Python list; `not desc` is true of the empty list only
get_meta_desc(html) ==
    IF html.desc # <<>> THEN html.desc
    ELSE IF html.og # <<>> THEN html.og
    ELSE html.tw

get_doc_summary(html) == html.docsum

\* x.strip(' ')
RECURSIVE LStrip(_)
LStrip(w) == IF w # <<>> /\ Head(w) = " " THEN LStrip(Tail(w)) ELSE w

RECURSIVE RStrip(_)
RStrip(w) ==
    IF w # <<>> /\ w[Len(w)] = " " THEN RStrip(SubSeq(w, 1, Len(w) - 1)) ELSE w

Strip(w) == RStrip(LStrip(w))

FirstFive(l) == SubSeq(l, 1, IF Len(l) < 5 THEN Len(l) ELSE 5)

\* mutant: the first phrase is taken without a test for an empty list
get_doc_keywords_NoCandidates(html) ==
    IF html.kw # <<>>
    THEN [exc |-> "AttributeError", val |-> <<>>]
    ELSE IF html.rake = <<>>
    THEN [exc |-> "IndexError", val |-> <<>>]
    ELSE [exc |-> "", val |-> [k \in DOMAIN FirstFive(html.rake) |-> Strip(FirstFive(html.rake)[k])]]

\* get_doc_keywords: keywords is the list the xpath query returns, and a list
\* has no split(): a page with a keywords tag raises AttributeError
get_doc_keywords(html) ==
    IF html.kw # <<>>
    THEN [exc |-> "AttributeError", val |-> <<>>]
    ELSE [exc |-> "", val |-> [k \in DOMAIN FirstFive(html.rake) |-> Strip(FirstFive(html.rake)[k])]]

\* lines 229-234 of create_linkpost: the exception they raise, the excerpt
\* text and the number of get_doc_summary calls
Extract(html) ==
    IF ~html.parses
    THEN [exc |-> "ParserError", excerpt |-> FormatStr(""), calls |-> 0]
    ELSE LET summary == get_meta_desc(html)
             excerpt == IF summary = <<>> THEN FormatStr(get_doc_summary(html))
                        ELSE FormatList(summary)
             calls == IF summary = <<>> THEN 1 ELSE 0
         IN [exc |-> get_doc_keywords(html).exc, excerpt |-> excerpt, calls |-> calls]

\* ----- create_linkpost: paths ---------------------------------------------
TargetDir(is_draft) == IF ~is_draft THEN PostDir ELSE DraftDir

\* "%s/%s-%s.markdown" % (path, timestamp.strftime('%Y-%m-%d'), item_id)
LinkFileName(path, date, item_id) == [dir |-> path, date |-> date, id |-> item_id]

Paths == [dir : {PostDir, DraftDir}, date : Days, id : {"a", "b"}]

\* the text written to the file
LinkText(title, date, url, html) ==
    [title |-> FormatStr(title), date |-> date, ref |-> url,
     excerpt |-> Extract(html).excerpt, body |-> html.body]

\* mutant: the test for the destination directory is lost
DirExists_Always(ds, path) == TRUE

\* os.path.exists(path): the destination directory is there
DirExists(ds, path) == path \in ds

\* mutant: the test for an existing file is lost
FileExists_Never(fs, linkfilename) == FALSE

\* os.path.exists(linkfilename): the linkpost file is there
FileExists(fs, linkfilename) == linkfilename \in DOMAIN fs

\* lines 227-253 of create_linkpost: the page is fetched, the excerpt and
\* the keywords are extracted, the file is opened and written. net and disk
\* are the outcomes of requests.get and of io.open. exc: the exception raised
\* ("" for a normal return); fetched: the number of requests.get calls;
\* calls: the number of get_doc_summary calls.
FetchAndWrite(fs, linkfilename, title, url, date, html, net, disk) ==
    LET same == [exc |-> "", files |-> fs, fetched |-> 1, calls |-> 0]
    IN IF net # "ok"
       THEN [same EXCEPT !.exc = "IOError"]
       ELSE IF Extract(html).exc # ""
       THEN [same EXCEPT !.exc = Extract(html).exc, !.calls = Extract(html).calls]
       ELSE IF disk # "ok"
       THEN [same EXCEPT !.exc = "IOError", !.calls = Extract(html).calls]
       ELSE [exc |-> "",
             files |-> [q \in DOMAIN fs \cup {linkfilename} |->
                          IF q = linkfilename
                          THEN LinkText(title, date, url, html)
                          ELSE fs[q]],
             fetched |-> 1,
             calls |-> Extract(html).calls]

\* mutant: the page is fetched and extracted first, the two tests come
\* between the extraction and the write
create_linkpost_FetchFirst(fs, ds, item_id, title, url, date, is_draft, html, net, disk) ==
    LET path == TargetDir(is_draft)
        linkfilename == LinkFileName(path, date, item_id)
        r == FetchAndWrite(fs, linkfilename, title, url, date, html, net, disk)
    IN IF net # "ok" \/ Extract(html).exc # ""
       THEN r
       ELSE IF ~DirExists(ds, path)
       THEN [exc |-> "RuntimeError", files |-> fs, fetched |-> 1, calls |-> r.calls]
       ELSE IF FileExists(fs, linkfilename)
       THEN [exc |-> "IOError", files |-> fs, fetched |-> 1, calls |-> r.calls]
       ELSE r

\* create_linkpost(config, item_id, title, url, timestamp, is_draft) on the
\* file system (fs: path -> text, ds: the directories that exist), with the
\* page the url serves and the outcomes of requests.get and io.open: the
\* directory test, the file test, then the fetch and the write.
create_linkpost(fs, ds, item_id, title, url, date, is_draft, html, net, disk) ==
    LET path == TargetDir(is_draft)
        linkfilename == LinkFileName(path, date, item_id)
        same == [exc |-> "", files |-> fs, fetched |-> 0, calls |-> 0]
    IN IF ~DirExists(ds, path)
       THEN [same EXCEPT !.exc = "RuntimeError"]
       ELSE IF FileExists(fs, linkfilename)
       THEN [same EXCEPT !.exc = "IOError"]
       ELSE FetchAndWrite(fs, linkfilename, title, url, date, html, net, disk)

\* ----- sync(): the tests of the per-item loop -----------------------------
\* mutant: only None counts as missing, the empty string passes
Incomplete_NoneOnly(url, item_id) == url = None \/ item_id = None

\* not all([url, item_id])
Incomplete(url, item_id) == ~(Truthy(url) /\ Truthy(item_id))

\* mutant: only a missing title makes a draft, an empty one a post
IsDraft_NoneOnly(title) == title = None

\* title in [None, '']
IsDraft(title) == title \in {None, ""}

\* the day of utcfromtimestamp(time_added), or of datetime.now()
TimestampDate(time_added, now) == IF time_added # NoneInt THEN time_added ELSE now

\* mutant: except Exception, every exception of create_linkpost is a skip
Caught_Everything(exc) == TRUE

\* except IOError: the exceptions of create_linkpost that the loop catches
Caught(exc) == exc = "IOError"

\* mutant: the cursor is stored inside the loop, after every item
SinceAfterItem_Eager(old, returned) == returned

\* config['pocket_since'] after one iteration: the loop assigns no key of config
SinceAfterItem(old, returned) == old

\* mutant: the cursor is left as it was loaded
NewSince_Stale(old, returned) == old

\* config['pocket_since'] after the loop: response[0]['since']
NewSince(old, returned) == returned

\* mutant: the drafts are not taken off the posts
Summary_DraftsAsPosts(n_items, drafts, skipped) ==
    [posts |-> n_items - skipped, drafts |-> drafts, skipped |-> skipped]

\* the three numbers of the 'Done' line
Summary(n_items, drafts, skipped) ==
    [posts |-> n_items - drafts - skipped, drafts |-> drafts, skipped |-> skipped]

NoSummary == [posts |-> -1, drafts |-> -1, skipped |-> -1]

\* ----- state --------------------------------------------------------------
VARIABLES
    pc,             \* "idle", "loop" (inside the for loop), "done" (exit 0), "failed" (exit 1)
    access_token,   \* pocket_access_token of _pockyll.yml
    saved_since,    \* pocket_since of _pockyll.yml on disk
    config_since,   \* config['pocket_since'] of the running process
    dirs,           \* the directories that exist
    files,          \* the linkpost files: path -> text
    today,          \* the day datetime.now() falls on
    served,         \* the feed: what Pocket answered for each 'since'
    bookmarks,      \* response[0]['list'] in iteration order
    resp_since,     \* response[0]['since']
    idx,            \* position of the for loop
    n_skipped,
    n_drafts,
    summary,        \* the numbers printed by the 'Done' line
    last_msg,       \* the line printed for the item visited last
    n_fetch,        \* requests.get calls of this run
    html,           \* response.text of the last requests.get
    summary_calls   \* get_doc_summary calls of the last create_linkpost

vars == <<pc, access_token, saved_since, config_since, dirs, files, today,
          served, bookmarks, resp_since, idx, n_skipped, n_drafts, summary,
          last_msg, n_fetch, html, summary_calls>>

n_items == Len(bookmarks)

\* the state after `pockyll init` (create_config) and an optional `auth`
Init ==
    /\ pc = "idle"
    /\ access_token \in {None, "token"}
    /\ saved_since = NoneInt
    /\ config_since = NoneInt
    /\ dirs \in SUBSET {PostDir, DraftDir}
    /\ files = <<>>
    /\ today = 0
    /\ served = [c \in Cursors |-> NoResponse]
    /\ bookmarks = <<>>
    /\ resp_since = NoneInt
    /\ idx = 0
    /\ n_skipped = 0
    /\ n_drafts = 0
    /\ summary = NoSummary
    /\ last_msg = ""
    /\ n_fetch = 0
    /\ html = NoPage
    /\ summary_calls = 0

\* mutant: the test for the access token is lost
NoAccessToken_Never(token) == FALSE

\* config.get('pocket_access_token', None) is None
NoAccessToken(token) == token = None

\* sync() without an access token: RuntimeError before get_list
SyncNoToken ==
    /\ pc # "loop"
    /\ NoAccessToken(access_token)
    /\ pc' = "failed"
    /\ config_since' = saved_since
    /\ last_msg' = "ERROR"
    /\ UNCHANGED <<access_token, saved_since, dirs, files, today, served, bookmarks,
                   resp_since, idx, n_skipped, n_drafts, summary, n_fetch, html,
                   summary_calls>>

\* the bookmarks the feed has delivered so far
RECURSIVE SumLen(_, _)
SumLen(f, S) ==
    IF S = {} THEN 0
    ELSE LET c == CHOOSE x \in S : TRUE IN Len(f[c].list) + SumLen(f, S \ {c})

Delivered == SumLen(served, Cursors)

\* mutant: the loop and what follows it run for an empty list as well
HasItems_Always(n) == TRUE

\* `if n_items > 0:` of sync()
HasItems(n) == n > 0

\* main -> load_config -> sync up to the head of the for loop: get_list asks
\* the feed for the items since config['pocket_since']; the feed answers the
\* same 'since' with the same response
SyncStart(responses) ==
    /\ pc # "loop"
    /\ ~NoAccessToken(access_token)
    /\ config_since' = saved_since
    /\ \E response \in responses :
         /\ served[saved_since] # NoResponse => response = served[saved_since]
         /\ served[saved_since] = NoResponse =>
                Delivered + Len(response.list) <= MaxItems
         /\ served' = [served EXCEPT ![saved_since] = response]
         /\ bookmarks' = response.list
         /\ resp_since' = response.since
         /\ pc' = IF HasItems(Len(response.list)) THEN "loop" ELSE "done"
         /\ last_msg' = IF HasItems(Len(response.list)) THEN ""
                        ELSE "No new bookmarks. Done."
    /\ idx' = 1
    /\ n_skipped' = 0
    /\ n_drafts' = 0
    /\ n_fetch' = 0
    /\ summary' = NoSummary
    /\ UNCHANGED <<access_token, saved_since, dirs, files, today, html, summary_calls>>

\* one iteration of the for loop, lines 270-302
SyncItem(pages) ==
    /\ pc = "loop"
    /\ idx <= n_items
    /\ LET item == bookmarks[idx]
           url == item.given_url
           item_id == item.resolved_id
       IN IF Incomplete(url, item_id)
          THEN /\ n_skipped' = n_skipped + 1
               /\ idx' = idx + 1
               /\ last_msg' = "Skipping incomplete item"
               /\ UNCHANGED <<pc, n_drafts, files, n_fetch, html, summary_calls>>
          ELSE \E page \in pages, net \in {"ok", "RequestException"},
                  disk \in {"ok", "IOError"} :
               LET title == item.resolved_title
                   is_draft == IsDraft(title)
                   date == TimestampDate(item.time_added, today)
                   r == create_linkpost(files, dirs, item_id, title, url, date,
                                        is_draft, page, net, disk)
               IN /\ n_drafts' = IF is_draft THEN n_drafts + 1 ELSE n_drafts
                  /\ files' = r.files
                  /\ n_fetch' = n_fetch + r.fetched
                  /\ html' = IF r.fetched = 1 /\ net = "ok" THEN page ELSE html
                  /\ summary_calls' = r.calls
                  /\ CASE r.exc = "" ->
                            /\ last_msg' = IF is_draft THEN "Linking to DRAFTs"
                                           ELSE "Linking to POSTs"
                            /\ idx' = idx + 1
                            /\ pc' = pc
                       [] r.exc # "" /\ Caught(r.exc) ->
                            /\ last_msg' = "Skipping"
                            /\ idx' = idx + 1
                            /\ pc' = pc
                       [] OTHER ->
                            /\ last_msg' = "ERROR"
                            /\ idx' = idx
                            /\ pc' = "failed"
                  /\ UNCHANGED n_skipped
    /\ config_since' = SinceAfterItem(config_since, resp_since)
    /\ saved_since' = SinceAfterItem(saved_since, resp_since)
    /\ UNCHANGED <<access_token, dirs, today, served, bookmarks, resp_since, summary>>

\* after the loop, lines 303-307: the cursor is stored and saved
SyncFinish ==
    /\ pc = "loop"
    /\ idx > n_items
    /\ config_since' = NewSince(config_since, resp_since)
    /\ saved_since' = config_since'
    /\ summary' = Summary(n_items, n_drafts, n_skipped)
    /\ last_msg' = "Done"
    /\ pc' = "done"
    /\ UNCHANGED <<access_token, dirs, files, today, served, bookmarks,
                   resp_since, idx, n_skipped, n_drafts, n_fetch, html, summary_calls>>

\* the clock: datetime.now() moves to the next day
Tick ==
    /\ today < MaxDay
    /\ today' = today + 1
    /\ UNCHANGED <<pc, access_token, saved_since, config_since, dirs, files,
                   served, bookmarks, resp_since, idx, n_skipped, n_drafts, summary,
                   last_msg, n_fetch, html, summary_calls>>

Next == SyncNoToken \/ SyncStart(Responses) \/ SyncItem(WebPages) \/ SyncFinish \/ Tick

Spec == Init /\ [][Next]_vars

\* ----- a single sync on a fresh site: no linkpost file exists before it ---
NextOnce ==
    \/ pc = "idle" /\ SyncNoToken
    \/ pc = "idle" /\ SyncStart(Responses)
    \/ SyncItem(WebPages)
    \/ SyncFinish
    \/ Tick

SpecOnce == Init /\ [][NextOnce]_vars

\* ----- a single sync of one bookmark, every page: the extraction of
\* create_linkpost
OneItemResponses ==
    { r \in Responses :
        /\ Len(r.list) = 1
        /\ r.list[1] \in CompleteItems
        /\ r.list[1].resolved_id = "a"
        /\ r.list[1].time_added = 0 }

InitPages ==
    /\ Init
    /\ access_token # None
    /\ dirs = {PostDir, DraftDir}

NextPages ==
    \/ pc = "idle" /\ SyncStart(OneItemResponses)
    \/ SyncItem(AllPages)
    \/ SyncFinish

SpecPages == InitPages /\ [][NextPages]_vars

\* ======================= properties =======================================
\* what the claims call an item without id or url
MissingIdOrUrl(it) ==
    \/ it.given_url = None \/ it.given_url = ""
    \/ it.resolved_id = None \/ it.resolved_id = ""

\* what the claims call a draft: the title is empty or absent
EmptyTitle(it) == it.resolved_title = None \/ it.resolved_title = ""

\* the path of the artifact of an item: {targetDir}/{date}-{id}
ArtifactPath(it, now) ==
    [dir |-> IF EmptyTitle(it) THEN DraftDir ELSE PostDir,
     date |-> IF it.time_added = NoneInt THEN now ELSE it.time_added,
     id |-> it.resolved_id]

\* a step that is one iteration of the for loop of sync()
ItemStep == pc = "loop" /\ idx <= n_items /\ (idx' # idx \/ pc' # pc)

\* C1: the cursor, in memory and on disk, changes only in the step that ends
\* the loop, after the last item was visited, and then becomes exactly the
\* 'since' the feed returned with this batch.
C1_CursorSetAfterBatch ==
    [][ /\ (pc = "loop" /\ pc' = "done") =>
             /\ idx > n_items
             /\ resp_since = served[config_since].since
             /\ config_since' = resp_since
             /\ saved_since' = resp_since
        /\ (saved_since' # saved_since \/ config_since' # config_since) =>
             /\ pc = "loop"
             /\ idx > n_items
             /\ pc' = "done" ]_vars

\* C1 witness: a batch of two items ran to completion and the saved cursor is
\* the 'since' of its response
C1_Witness ==
    /\ pc = "done"
    /\ n_items >= 2
    /\ idx = n_items + 1
    /\ summary # NoSummary
    /\ resp_since = 2
    /\ saved_since = 2

\* C2: when an exception ends the loop, the saved cursor is still the one the
\* run asked the feed with, and the next sync asks with the same cursor and
\* gets the same batch.
C2_CursorKeptOnAbort ==
    [][ /\ (pc = "loop" /\ pc' = "failed") =>
             /\ idx <= n_items
             /\ saved_since' = saved_since
             /\ served[saved_since'] = [list |-> bookmarks, since |-> resp_since]
        /\ (pc = "failed" /\ n_items > 0 /\ pc' # "failed") =>
             /\ config_since' = config_since
             /\ bookmarks' = bookmarks
             /\ resp_since' = resp_since ]_vars

\* C2 witness: a second run over the batch of an aborted run: its first item
\* is skipped without a fetch because the aborted run wrote it, and the
\* cursor was never advanced
C2_Witness ==
    /\ pc = "loop"
    /\ idx = 2
    /\ n_items = 2
    /\ bookmarks[1] # bookmarks[2]
    /\ last_msg = "Skipping"
    /\ n_fetch = 0
    /\ saved_since = NoneInt
    /\ \A c \in SinceValues : served[c] = NoResponse

\* C3: a file that exists keeps its text for ever, and an item whose path
\* exists is reported as skipped: nothing is fetched or written for it.
C3_NeverOverwrite ==
    [][ /\ \A p \in DOMAIN files : p \in DOMAIN files' /\ files'[p] = files[p]
        /\ ( /\ ItemStep
             /\ ~MissingIdOrUrl(bookmarks[idx])
             /\ ArtifactPath(bookmarks[idx], today) \in DOMAIN files ) =>
             /\ last_msg' = "Skipping"
             /\ files' = files
             /\ n_fetch' = n_fetch ]_vars

\* C3 witness: the second of two equal items met the file the first one wrote
C3_Witness ==
    /\ pc = "loop"
    /\ idx = 3
    /\ bookmarks[1] = bookmarks[2]
    /\ n_fetch = 1
    /\ last_msg = "Skipping"
    /\ Cardinality(DOMAIN files) = 1
    /\ ArtifactPath(bookmarks[2], today) \in DOMAIN files

\* the items of the batch that satisfy P, by position
Positions(P(_)) == { k \in 1..n_items : P(bookmarks[k]) }

\* C4: a run that completes without a single fetch met only items without id
\* or url and items whose file exists; the claim counts all of them as
\* skipped and none as a post or a draft.
C4_ExistingCountedSkipped ==
    (pc = "done" /\ n_items > 0 /\ n_fetch = 0) =>
        summary = [posts |-> 0, drafts |-> 0, skipped |-> n_items]

\* C5: an item without id or url changes no file, fetches nothing, adds one
\* to the skipped count and leaves the loop running; the run that reaches the
\* end of the batch reports exactly these items as skipped and stores the
\* cursor.
C5_IncompleteSkipped ==
    [][ /\ (ItemStep /\ MissingIdOrUrl(bookmarks[idx])) =>
             /\ files' = files
             /\ n_fetch' = n_fetch
             /\ n_skipped' = n_skipped + 1
             /\ n_drafts' = n_drafts
             /\ idx' = idx + 1
             /\ pc' = "loop"
        /\ (pc = "loop" /\ pc' = "done") =>
             /\ summary'.skipped = Cardinality(Positions(MissingIdOrUrl))
             /\ saved_since' = resp_since ]_vars

\* C5 witness: the first item had no id or url, the second was written after
\* it, and the run ended with one skipped item and the cursor stored
C5_Witness ==
    /\ pc = "done"
    /\ n_items = 2
    /\ MissingIdOrUrl(bookmarks[1])
    /\ ~MissingIdOrUrl(bookmarks[2])
    /\ n_fetch = 1
    /\ ArtifactPath(bookmarks[2], today) \in DOMAIN files
    /\ summary.skipped = 1
    /\ saved_since = resp_since

\* C6: a file is created in the draft directory exactly when the title of its
\* item is empty or absent, in the post directory otherwise, and the item
\* counts as a draft exactly then; no file of the post directory carries an
\* empty or absent title.
C6_DraftIffNoTitle ==
    [][ /\ \A p \in DOMAIN files' \ DOMAIN files :
             /\ ItemStep
             /\ ~MissingIdOrUrl(bookmarks[idx])
             /\ p.dir = DraftDir <=> EmptyTitle(bookmarks[idx])
             /\ p.dir = PostDir <=> ~EmptyTitle(bookmarks[idx])
             /\ files'[p].title = FormatStr(bookmarks[idx].resolved_title)
        /\ (ItemStep /\ ~MissingIdOrUrl(bookmarks[idx])) =>
             (n_drafts' = n_drafts + 1 <=> EmptyTitle(bookmarks[idx]))
        /\ \A p \in DOMAIN files' :
             p.dir = PostDir => files'[p].title \notin {FormatStr(""), FormatStr(None)} ]_vars

\* C6 witness: one run wrote a post for a titled item and a draft for an
\* item with an empty title
C6_Witness ==
    /\ pc = "done"
    /\ n_items = 2
    /\ n_drafts = 1
    /\ \E p \in DOMAIN files : p.dir = PostDir /\ files[p].title = FormatStr("T")
    /\ \E p \in DOMAIN files : p.dir = DraftDir /\ files[p].title = FormatStr("")

TitledItem(it) == ~MissingIdOrUrl(it) /\ ~EmptyTitle(it)

UntitledItem(it) == ~MissingIdOrUrl(it) /\ EmptyTitle(it)

FilesIn(dir) == { p \in DOMAIN files : p.dir = dir }

\* C7: after the single sync of a fresh site with both directories, the
\* summary counts the titled items as posts, the untitled as drafts, the
\* items without id or url as skipped, the post and draft counts are the
\* numbers of files in the two directories, and the cursor is stored.
C7_SummaryMatchesFiles ==
    (pc = "done" /\ n_items > 0 /\ dirs = {PostDir, DraftDir}) =>
        /\ summary.posts = Cardinality(Positions(TitledItem))
        /\ summary.drafts = Cardinality(Positions(UntitledItem))
        /\ summary.skipped = Cardinality(Positions(MissingIdOrUrl))
        /\ summary.posts = Cardinality(FilesIn(PostDir))
        /\ summary.drafts = Cardinality(FilesIn(DraftDir))
        /\ saved_since = resp_since

\* the file p is an artifact of the item it
ArtifactOf(p, it) ==
    /\ p.id = it.resolved_id
    /\ p.dir = (IF EmptyTitle(it) THEN DraftDir ELSE PostDir)
    /\ files[p].ref = it.given_url
    /\ files[p].title = FormatStr(it.resolved_title)

\* the same BookmarkItem: same id, url and title
SameBookmark(x, y) ==
    /\ x.resolved_id = y.resolved_id
    /\ x.given_url = y.given_url
    /\ x.resolved_title = y.resolved_title

\* C8: while the cursor has never been advanced, so that every run was given
\* the same batch, and the batch holds no bookmark twice, no item of the
\* batch has more than one artifact.
C8_OneArtifactPerItem ==
    ( /\ saved_since = NoneInt
      /\ \A c \in SinceValues : served[c] = NoResponse
      /\ \A j, k \in 1..n_items : SameBookmark(bookmarks[j], bookmarks[k]) => j = k ) =>
        \A k \in 1..n_items :
            ~MissingIdOrUrl(bookmarks[k]) =>
                Cardinality({ p \in DOMAIN files : ArtifactOf(p, bookmarks[k]) }) <= 1

\* C9: an item whose target directory is missing ends the run with an error:
\* no file is written, nothing is fetched, the item is not counted as
\* skipped, the loop does not move on and the cursor is not stored; a run
\* that ended so does nothing more.
C9_MissingDirIsFatal ==
    [][ /\ ( /\ ItemStep
             /\ ~MissingIdOrUrl(bookmarks[idx])
             /\ ArtifactPath(bookmarks[idx], today).dir \notin dirs ) =>
             /\ pc' = "failed"
             /\ last_msg' = "ERROR"
             /\ files' = files
             /\ n_fetch' = n_fetch
             /\ n_skipped' = n_skipped
             /\ idx' = idx
             /\ saved_since' = saved_since
        /\ (pc = "failed" /\ pc' = "failed") =>
             /\ files' = files
             /\ idx' = idx
             /\ saved_since' = saved_since
        /\ \A p \in DOMAIN files' : p.dir \in dirs ]_vars

\* C9 witness: the second item of a batch needed the missing draft directory
\* after the first was written to the post directory
C9_Witness ==
    /\ pc = "failed"
    /\ dirs = {PostDir}
    /\ n_items = 2
    /\ idx = 2
    /\ EmptyTitle(bookmarks[2])
    /\ ~MissingIdOrUrl(bookmarks[2])
    /\ n_fetch = 1
    /\ Cardinality(DOMAIN files) = 1
    /\ saved_since = NoneInt

\* the content of a meta tag, "" when the page has no such tag
TagContent(l) == IF l = <<>> THEN "" ELSE l[1]

RECURSIVE FirstNonEmpty(_)
FirstNonEmpty(l) ==
    IF l = <<>> THEN ""
    ELSE IF Head(l) # "" THEN Head(l)
    ELSE FirstNonEmpty(Tail(l))

\* C10: the excerpt of a written linkpost is the first non-empty text among
\* the description, og:description and twitter:description contents and the
\* generated summary, and get_doc_summary is not called when one of the three
\* tags has a content.
C10_FirstNonEmptyExcerpt ==
    (pc = "loop" /\ last_msg \in {"Linking to POSTs", "Linking to DRAFTs"}) =>
        /\ \A p \in DOMAIN files :
             files[p].excerpt =
                 FormatStr(FirstNonEmpty(<<TagContent(html.desc), TagContent(html.og),
                                           TagContent(html.tw), html.docsum>>))
        /\ FirstNonEmpty(<<TagContent(html.desc), TagContent(html.og),
                           TagContent(html.tw)>>) # "" => summary_calls = 0

\* content.split(',')[:5] with every token stripped of blanks, for the
\* keywords contents the pages of the model carry
SplitKeywords(content) ==
    CASE content = "k1, k2" -> << <<"k", "1">>, <<"k", "2">> >>
      [] OTHER -> <<>>

\* C11: for a page with a keywords meta tag get_doc_keywords returns without
\* an error the first five comma-separated tokens of its content, each
\* stripped of blanks, at most five of them, and the item that fetched the
\* page does not abort the run.
C11_KeywordsFromMetaTag ==
    (n_fetch = 1 /\ html.parses /\ html.kw # <<>>) =>
        /\ get_doc_keywords(html).exc = ""
        /\ Len(get_doc_keywords(html).val) <= 5
        /\ get_doc_keywords(html).val = SplitKeywords(html.kw[1])
        /\ pc # "failed"

\* a page that parses and has no description tag, no summary, no keywords
\* tag and no RAKE phrase
NothingToExtract(page) ==
    /\ page.parses
    /\ page.desc = <<>> /\ page.og = <<>> /\ page.tw = <<>>
    /\ page.docsum = ""
    /\ page.kw = <<>> /\ page.rake = <<>>

StartStep == pc # "loop" /\ access_token # None /\ today' = today

\* C13: a run whose feed response holds no item ends at once with the
\* success message: no file changes, nothing is fetched, no summary is
\* printed, and the cursor in memory and on disk is the one the run started
\* with.
C13_EmptyBatchIsNoOp ==
    [][ (StartStep /\ bookmarks' = <<>>) =>
            /\ pc' = "done"
            /\ last_msg' = "No new bookmarks. Done."
            /\ files' = files
            /\ n_fetch' = 0
            /\ summary' = NoSummary
            /\ saved_since' = saved_since
            /\ config_since' = saved_since ]_vars

\* C13 witness: after a run that wrote a file and set the cursor, a run got
\* an empty list with a newer 'since' and left the cursor alone
C13_Witness ==
    /\ pc = "done"
    /\ bookmarks = <<>>
    /\ last_msg = "No new bookmarks. Done."
    /\ saved_since = 1
    /\ resp_since = 2
    /\ DOMAIN files # {}

\* C14: without an access token every call of sync() ends in the fatal
\* error and nothing else happens: the feed is not asked, nothing is
\* fetched, no file changes, no batch is taken up, the cursor stays.
C14_NoTokenIsFatal ==
    [][ access_token = None =>
            /\ served' = served
            /\ bookmarks' = bookmarks
            /\ n_fetch' = n_fetch
            /\ files' = files
            /\ saved_since' = saved_since
            /\ today' = today => (pc' = "failed" /\ last_msg' = "ERROR") ]_vars

\* C14 witness: sync() was called without a token and failed; the feed was
\* never asked
C14_Witness ==
    /\ pc = "failed"
    /\ access_token = None
    /\ last_msg = "ERROR"
    /\ \A c \in Cursors : served[c] = NoResponse
    /\ files = <<>>
    /\ saved_since = NoneInt

\* C15, as stated: an item is reported as skipped by the except branch only
\* when its file exists already; a failure of the fetch or of the write is
\* never turned into a skip.
C15_OnlyExistingFileIsCaught ==
    [][ ( /\ ItemStep
          /\ ~MissingIdOrUrl(bookmarks[idx])
          /\ last_msg' = "Skipping" ) =>
          ArtifactPath(bookmarks[idx], today) \in DOMAIN files ]_vars

\* C15, amended: the except branch catches every IOError. An item is skipped
\* and the loop goes on when its file exists or when requests.get or io.open
\* raised an IOError after the fetch was attempted; a missing directory and
\* an error of the extraction are not caught: the run fails at that item,
\* which keeps its position, and files and cursor are as they were.
C15_IOErrorsCaughtOthersPropagate ==
    [][ /\ (ItemStep /\ ~MissingIdOrUrl(bookmarks[idx])) =>
             /\ last_msg' = "Skipping" =>
                  /\ pc' = "loop"
                  /\ idx' = idx + 1
                  /\ files' = files
                  /\ \/ ArtifactPath(bookmarks[idx], today) \in DOMAIN files
                     \/ n_fetch' = n_fetch + 1
             /\ ArtifactPath(bookmarks[idx], today).dir \notin dirs => pc' = "failed"
             /\ (html' # html /\ (html'.kw # <<>> \/ ~html'.parses)) => pc' = "failed"
             /\ pc' = "failed" =>
                  /\ idx' = idx
                  /\ last_msg' = "ERROR"
                  /\ files' = files
                  /\ saved_since' = saved_since
                  /\ config_since' = config_since
        /\ (pc = "failed" /\ pc' = "failed") =>
             (idx' = idx /\ files' = files /\ saved_since' = saved_since) ]_vars

\* C15 witness: the first item of a batch was skipped after its fetch was
\* attempted, with no file in the way, and the loop went on
C15_Witness ==
    /\ pc = "loop"
    /\ n_items = 2
    /\ idx = 2
    /\ last_msg = "Skipping"
    /\ n_fetch = 1
    /\ files = <<>>

\* the batch is two items with id and url that map to one path, and the day
\* has not changed since the run began
Collide ==
    /\ n_items = 2
    /\ ~MissingIdOrUrl(bookmarks[1])
    /\ ~MissingIdOrUrl(bookmarks[2])
    /\ today = 0
    /\ ArtifactPath(bookmarks[1], 0) = ArtifactPath(bookmarks[2], 0)

C17_ChecksBeforeFetchBeforeWrite ==
    [][ (ItemStep /\ ~MissingIdOrUrl(bookmarks[idx])) =>
            /\ ( \/ ArtifactPath(bookmarks[idx], today).dir \notin dirs
                 \/ ArtifactPath(bookmarks[idx], today) \in DOMAIN files ) =>
                 /\ n_fetch' = n_fetch
                 /\ html' = html
                 /\ summary_calls' = 0
                 /\ files' = files
            /\ files' # files =>
                 /\ n_fetch' = n_fetch + 1
                 /\ html'.parses
                 /\ files'[ArtifactPath(bookmarks[idx], today)].excerpt =
                        IF get_meta_desc(html') = <<>>
                        THEN FormatStr(html'.docsum)
                        ELSE FormatList(get_meta_desc(html'))
                 /\ files'[ArtifactPath(bookmarks[idx], today)].body = html'.body ]_vars

\* C17 witness: the first item fetched the page with nothing to extract,
\* called get_doc_summary and wrote its file; the second, a different item,
\* found its path taken and nothing was fetched or extracted for it
C17_Witness ==
    /\ pc = "loop"
    /\ idx = 3
    /\ bookmarks[1] # bookmarks[2]
    /\ ~MissingIdOrUrl(bookmarks[1])
    /\ ArtifactPath(bookmarks[2], today) \in DOMAIN files
    /\ last_msg = "Skipping"
    /\ n_fetch = 1
    /\ summary_calls = 0
    /\ NothingToExtract(html)
    /\ Cardinality(DOMAIN files) = 1
    /\ saved_since = NoneInt

\* C18: while the loop runs the draft and skipped counts are not negative
\* and together count at most the items visited; the summary of a run that
\* reached the end of its batch has three numbers that are not negative and
\* add up to the number of items, and its drafts are the untitled items that
\* have id and url: no item skipped for a missing id or url is among them.
C18_CountersPartitionBatch ==
    /\ pc = "loop" =>
         /\ n_drafts >= 0
         /\ n_skipped >= 0
         /\ n_drafts + n_skipped <= idx - 1
    /\ (pc = "done" /\ n_items > 0) =>
         /\ summary.posts >= 0
         /\ summary.drafts >= 0
         /\ summary.skipped >= 0
         /\ summary.posts + summary.drafts + summary.skipped = n_items
         /\ summary.drafts = Cardinality(Positions(UntitledItem))
         /\ summary.skipped >= Cardinality(Positions(MissingIdOrUrl))

\* C18 witness: a batch of an item without id and title and of an untitled
\* item with id and url ended with no post, one draft and one skipped
C18_Witness ==
    /\ pc = "done"
    /\ n_items = 2
    /\ MissingIdOrUrl(bookmarks[1])
    /\ EmptyTitle(bookmarks[1])
    /\ UntitledItem(bookmarks[2])
    /\ summary = [posts |-> 0, drafts |-> 1, skipped |-> 1]

====
